---- MODULE Spec2Model ----
(***************************************************************************)
(* Windows Startup Configurator: the program launcher                      *)
(* (start_programs.py, class ProgramLauncher).                             *)
(*                                                                         *)
(* One run of ProgramLauncher.run() is a sequential walk over the list     *)
(* read from config.json.  The model keeps, in calling order, every call   *)
(* the run makes on its collaborators (the toast notifier, the             *)
(* configuration file, time.sleep and subprocess.Popen) in `trace`.        *)
(* Console lines (print) repeat the notifications and are not modelled.    *)
(*                                                                         *)
(* After a run has ended the launcher can be started once more on the      *)
(* same file and the same executables, this time with a notifier that      *)
(* works; the first run's calls are kept in `prev` for comparison.         *)
(*                                                                         *)
(* The second part of the module (specification SpecReg) is the autostart  *)
(* entry in the registry: AutostartManager.register (register_task.py)     *)
(* and Uninstaller.unregister_autostart (uninstall.py).                    *)
(***************************************************************************)
EXTENDS Integers, Sequences, FiniteSets, TLC

VARIABLES
    cfgFile,        \* what open()/json.load() find at self.config_file
    notifierUp,     \* TRUE: show_toast never fails in this run
    pc,             \* position of the run in run()/launch_program()
    config,         \* the local `config` of run(): None or Some(list)
    idx,            \* position of the for loop in config (1-based)
    trace,          \* calls made on the collaborators, in order
    notifyFailed,   \* some show_toast call of this run raised
    exc,            \* exception that escaped run(), "none" if none
    run,            \* 1: first run, 2: the run after Relaunch
    prev,           \* the first run's effects and result, once it is over
    exit,           \* how the launcher's process ended, once main() is over
    regStore,       \* the values of HKCU\...\Run: a set of [name, data]
    regHandles,     \* key handles opened and not closed by a finished call
    regLast,        \* the last finished call of register/unregister_autostart
    regCalls        \* number of finished calls

\* the variables of the registry part
regVars == <<regStore, regHandles, regLast, regCalls>>

vars == <<cfgFile, notifierUp, pc, config, idx, trace, notifyFailed, exc, run, prev,
          exit, regVars>>

----------------------------------------------------------------------------
(* Bounds of the model *)

\* longest "Programs" list
MaxProgs == 2

\* largest Delay, in seconds
MaxDelay == 1

----------------------------------------------------------------------------
(* Python values *)

\* None, or a key the JSON object does not have
None == <<>>

\* a value that is there
Some(x) == <<x>>

IsNone(o) == o = <<>>

Val(o) == o[1]

\* dict.get(key, default)
Get(o, default) == IF IsNone(o) THEN default ELSE Val(o)

----------------------------------------------------------------------------
(* Paths and os.path.expandvars *)

\* A path is a sequence of tokens: a literal piece, or a reference %X%
\* to the environment variable X.
VarRefs == {"%E%", "%V%", "%U%"}

\* os.environ: E is set to the empty string, V to "b", U is not set
EnvironDefined == {"%E%", "%V%"}

EnvironValue(ref) == IF ref = "%E%" THEN <<>> ELSE <<"b">>

\* expansion of one token: the value of a set variable, the reference
\* left as it is when the variable is not set, a literal unchanged
ExpandToken(t) ==
    IF t \in VarRefs /\ t \in EnvironDefined THEN EnvironValue(t) ELSE <<t>>

RECURSIVE expandvars(_)
expandvars(path) ==
    IF path = <<>> THEN <<>>
    ELSE ExpandToken(Head(path)) \o expandvars(Tail(path))

----------------------------------------------------------------------------
(* Program descriptors: the entries of "Programs" *)

Desc(n, e, p, d) == [Name |-> n, Enabled |-> e, Path |-> p, Delay |-> d]

Delays == 0 .. MaxDelay

\* a Delay time.sleep rejects with ValueError
RejectedDelay == 0 - 1

Descriptors ==
    \* launchable, every field but Path and Name defaulted
    { Desc(Some("A"), None, Some(<<"a">>), None) }
    \cup
    \* launchable, Enabled and Delay given
    { Desc(Some("A"), Some(TRUE), Some(<<"a">>), Some(x)) : x \in Delays }
    \cup
    \* enabled, with each kind of Path
    { Desc(Some("B"), Some(TRUE), p, Some(MaxDelay)) :
        p \in { None, Some(<<>>), Some(<<"%E%">>),
                Some(<<"%V%", "a">>), Some(<<"%U%">>) } }
    \cup
    \* disabled, with and without a Path, Name defaulted
    { Desc(None, Some(FALSE), p, Some(MaxDelay)) :
        p \in { None, Some(<<"a">>) } }
    \cup
    \* a Delay that time.sleep rejects
    { Desc(Some("A"), Some(TRUE), Some(<<"a">>), Some(RejectedDelay)) }

RECURSIVE SeqsUpTo(_, _)
SeqsUpTo(S, n) ==
    IF n = 0 THEN { <<>> }
    ELSE LET shorter == SeqsUpTo(S, n - 1)
         IN  shorter \cup { Append(s, x) : s \in { t \in shorter : Len(t) = n - 1 }, x \in S }

\* What reading the configuration can meet.
\*   "not found"   open() raises FileNotFoundError
\*   "bad json"    json.load raises JSONDecodeError
\*   "other error" any other exception: the file cannot be read, or its
\*                 top level is not an object and config.get fails
\*   "no key"      an object without the key Programs
\*   "programs"    an object with a Programs list
ReadFailures == {"not found", "bad json", "other error"}

CfgFiles ==
    { [kind |-> k, programs |-> <<>>] : k \in ReadFailures \cup {"no key"} }
    \cup
    { [kind |-> "programs", programs |-> ps] : ps \in SeqsUpTo(Descriptors, MaxProgs) }

----------------------------------------------------------------------------
(* Calls on the collaborators *)

Event(e, t, m, n, i, p, s, o) ==
    [ev |-> e, title |-> t, msg |-> m, name |-> n, idx |-> i,
     path |-> p, secs |-> s, outcome |-> o]

\* self.notifier.show_toast(title, message), for descriptor i (0: none)
Toast(t, m, n, i) == Event("notify", t, m, n, i, <<>>, 0, "")

\* time.sleep(secs) for descriptor i
Slept(i, s) == Event("sleep", "", "", "", i, <<>>, s, "")

\* subprocess.Popen([path]) for descriptor i, and how it ended
Spawned(i, p, o) == Event("spawn", "", "", "", i, p, 0, o)

\* open() and json.load() of the configuration file
ReadEv(k) == Event("read", "", "", "", 0, <<>>, 0, k)

SpawnResults == {"ok", "FileNotFoundError", "OtherError"}

----------------------------------------------------------------------------
(* ProgramLauncher's helpers *)

\* mutant: the Enabled flag is not looked at
is_program_enabled_ignored(program) == TRUE

is_program_enabled(program) == Get(program.Enabled, TRUE)

\* mutant: the path is returned without expanding its variables
get_program_path_raw(program) ==
    IF ~IsNone(program.Path) /\ Val(program.Path) # <<>>
    THEN Some(Val(program.Path))
    ELSE None

get_program_path(program) ==
    IF ~IsNone(program.Path) /\ Val(program.Path) # <<>>
    THEN Some(expandvars(Val(program.Path)))
    ELSE None

\* mutant: the key is not found, the default is always taken
get_program_delay_default(program) == 0

get_program_delay(program) == Get(program.Delay, 0)

get_program_name(program) == Get(program.Name, "Unknown Program")

\* `not path` in launch_program: None or the empty string
NoPath(path) == IF IsNone(path) THEN TRUE ELSE Val(path) = <<>>

\* show_toast may fail unless the notifier is known to work
ToastResults == IF notifierUp THEN {TRUE} ELSE BOOLEAN

\* mutant: notify lets the failure of show_toast through
NotifyRaisesOnFailure(ok) == ~ok

\* notify(): does the failure of show_toast leave notify as an exception?
\* `except Exception` catches it, so never.
NotifyRaises(ok) == FALSE

\* notify(title, message) as the last call of a step that goes on at `next`
Notify(tr, ev, ok, next) ==
    /\ trace' = Append(tr, ev)
    /\ notifyFailed' = (notifyFailed \/ ~ok)
    /\ pc' = IF NotifyRaises(ok) THEN "raised" ELSE next
    /\ exc' = IF NotifyRaises(ok) THEN "NotifierError" ELSE exc

----------------------------------------------------------------------------
(* The state after construction *)

NoPrev == [over |-> FALSE, result |-> "", exc |-> "", effects |-> <<>>, failed |-> FALSE]

\* main() has not ended
NoExit == [done |-> FALSE, code |-> 0, diag |-> FALSE]

\* no call of register or unregister_autostart has been made
NoCall ==
    [op |-> "none", path |-> <<>>, before |-> {}, opened |-> FALSE, changed |-> FALSE,
     closed |-> FALSE, result |-> "", notes |-> <<>>]

\* the registry is left alone while the launcher runs
RegIdle ==
    /\ regStore = {}
    /\ regHandles = 0
    /\ regLast = NoCall
    /\ regCalls = 0

Init ==
    /\ exit = NoExit
    /\ RegIdle
    /\ cfgFile \in CfgFiles
    /\ notifierUp = FALSE
    /\ pc = "start"
    /\ config = None
    /\ idx = 0
    /\ trace = <<>>
    /\ notifyFailed = FALSE
    /\ exc = "none"
    /\ run = 1
    /\ prev = NoPrev

----------------------------------------------------------------------------
(* What a run has done to the world: the configuration read, the waits *)
(* and the spawn requests, in order, without the notifications         *)

IsEffect(e) == e.ev \in {"read", "sleep", "spawn"}

Effects(tr) == SelectSeq(tr, IsEffect)

\* Popen([path]) for descriptor i: the executable decides.  In the run
\* after Relaunch the same executable ends the same way.
Popen(i) ==
    LET before == { k \in 1 .. Len(prev.effects) :
                      prev.effects[k].ev = "spawn" /\ prev.effects[k].idx = i }
    IN  IF run = 2 /\ before # {}
        THEN { prev.effects[k].outcome : k \in before }
        ELSE SpawnResults

----------------------------------------------------------------------------
(* run(), lines 145-146 *)

Start ==
    /\ pc = "start"
    /\ \E ok \in ToastResults :
         Notify(trace, Toast("Startup Configurator", "Starting program launch", "", 0),
                ok, "read")
    /\ UNCHANGED <<cfgFile, notifierUp, config, idx, run, prev>>
    /\ UNCHANGED <<exit, regVars>>

(* read_config(), called at line 148 *)

\* mutant: one message for every failure
ConfigErrorMsgGeneric(kind) == "An unexpected error occurred"

ConfigErrorMsg(kind) ==
    CASE kind = "not found" -> "Configuration file not found"
      [] kind = "bad json"  -> "Could not decode JSON"
      [] OTHER              -> "An unexpected error occurred"

\* config.get('Programs', [])
ProgramsOf(file) == IF file.kind = "programs" THEN file.programs ELSE <<>>

\* mutant: no `except Exception`, only the two named ones are caught
ReadConfigCatchesNamed(kind) == kind # "other error"

\* the exceptions read_config catches: FileNotFoundError, JSONDecodeError
\* and, with `except Exception`, every other one
ReadConfigCatches(kind) == TRUE

\* mutant: config['Programs'], whose KeyError ends in None
read_config_result_nodefault(file) ==
    IF file.kind = "programs" THEN Some(file.programs) ELSE None

\* what read_config returns: None after a failure, the list otherwise
read_config_result(file) ==
    IF file.kind \in ReadFailures THEN None ELSE Some(ProgramsOf(file))

ReadConfig ==
    /\ pc = "read"
    /\ config' = read_config_result(cfgFile)
    /\ IF cfgFile.kind \notin ReadFailures
       THEN /\ trace' = Append(trace, ReadEv(cfgFile.kind))
            /\ pc' = "check"
            /\ UNCHANGED <<notifyFailed, exc>>
       ELSE IF ReadConfigCatches(cfgFile.kind)
       THEN \E ok \in ToastResults :
               Notify(Append(trace, ReadEv(cfgFile.kind)),
                      Toast("Configuration Error", ConfigErrorMsg(cfgFile.kind), "", 0),
                      ok, "check")
       ELSE /\ trace' = Append(trace, ReadEv(cfgFile.kind))
            /\ pc' = "raised"
            /\ exc' = cfgFile.kind
            /\ UNCHANGED notifyFailed
    /\ UNCHANGED <<cfgFile, notifierUp, idx, run, prev>>
    /\ UNCHANGED <<exit, regVars>>

(* run(), lines 149-152 *)

AbortNoConfig ==
    /\ pc = "check"
    /\ IsNone(config)
    /\ \E ok \in ToastResults :
         Notify(trace, Toast("Startup Configurator", "Failed to read configuration", "", 0),
                ok, "returned")
    /\ UNCHANGED <<cfgFile, notifierUp, config, idx, run, prev>>
    /\ UNCHANGED <<exit, regVars>>

(* run(), lines 154-157 *)

NoPrograms ==
    /\ pc = "check"
    /\ ~IsNone(config)
    /\ Val(config) = <<>>
    /\ \E ok \in ToastResults :
         Notify(trace, Toast("Startup Configurator", "No programs found", "", 0),
                ok, "returned")
    /\ UNCHANGED <<cfgFile, notifierUp, config, idx, run, prev>>
    /\ UNCHANGED <<exit, regVars>>

(* run(), line 159: the for loop is entered *)

EnterLoop ==
    /\ pc = "check"
    /\ ~IsNone(config)
    /\ Val(config) # <<>>
    /\ pc' = "loop"
    /\ idx' = 1
    /\ UNCHANGED <<cfgFile, notifierUp, config, trace, notifyFailed, exc, run, prev>>
    /\ UNCHANGED <<exit, regVars>>

InLoop == pc = "loop" /\ idx <= Len(Val(config))

program == Val(config)[idx]

(* run(), lines 160, 162-165 *)

SkipDisabled ==
    /\ InLoop
    /\ ~is_program_enabled(program)
    /\ idx' = idx + 1
    /\ \E ok \in ToastResults :
         Notify(trace, Toast("Startup Configurator", "is disabled. Skipping",
                             get_program_name(program), idx),
                ok, "loop")
    /\ UNCHANGED <<cfgFile, notifierUp, config, run, prev>>
    /\ UNCHANGED <<exit, regVars>>

(* launch_program(), lines 105-112 *)

\* mutant: the wait comes before the check of the path
LaunchNoPathAfterDelay ==
    /\ InLoop
    /\ is_program_enabled(program)
    /\ NoPath(get_program_path(program))
    /\ idx' = idx + 1
    /\ \E ok \in ToastResults :
         Notify(Append(trace, Slept(idx, get_program_delay(program))),
                Toast("Launch Error", "Path not specified",
                      get_program_name(program), idx),
                ok, "loop")
    /\ UNCHANGED <<cfgFile, notifierUp, config, run, prev>>
    /\ UNCHANGED <<exit, regVars>>

LaunchNoPath ==
    /\ InLoop
    /\ is_program_enabled(program)
    /\ NoPath(get_program_path(program))
    /\ idx' = idx + 1
    /\ \E ok \in ToastResults :
         Notify(trace, Toast("Launch Error", "Path not specified",
                             get_program_name(program), idx),
                ok, "loop")
    /\ UNCHANGED <<cfgFile, notifierUp, config, run, prev>>
    /\ UNCHANGED <<exit, regVars>>

(* launch_program(), lines 114-115: time.sleep(delay), which raises *)
(* ValueError for a negative delay, outside any try                 *)

SleepRejects(delay) == delay < 0

Wait ==
    /\ InLoop
    /\ is_program_enabled(program)
    /\ ~NoPath(get_program_path(program))
    /\ LET delay == get_program_delay(program)
       IN  IF SleepRejects(delay)
           THEN /\ pc' = "raised"
                /\ exc' = "ValueError"
                /\ UNCHANGED trace
           ELSE /\ pc' = "spawn"
                /\ trace' = Append(trace, Slept(idx, delay))
                /\ UNCHANGED exc
    /\ UNCHANGED <<cfgFile, notifierUp, config, idx, notifyFailed, run, prev>>
    /\ UNCHANGED <<exit, regVars>>

(* launch_program(), lines 117-126 *)

\* mutant: the success notification is sent whatever Popen did
SpawnMsgAlwaysLaunched(o) == <<"Program Launched", "launched successfully">>

SpawnMsg(o) ==
    CASE o = "ok"                -> <<"Program Launched", "launched successfully">>
      [] o = "FileNotFoundError" -> <<"Launch Error", "Program file not found">>
      [] OTHER                   -> <<"Launch Error", "An unexpected error occurred while launching">>

\* mutant: a failed spawn ends the run
AfterSpawnStopsOnFailure(o) == IF o = "ok" THEN "loop" ELSE "returned"

\* where the for loop goes on after Popen ended with o
AfterSpawn(o) == "loop"

Spawn ==
    /\ pc = "spawn"
    /\ \E o \in Popen(idx), ok \in ToastResults :
         /\ Notify(Append(trace, Spawned(idx, Val(get_program_path(program)), o)),
                   Toast(SpawnMsg(o)[1], SpawnMsg(o)[2], get_program_name(program), idx),
                   ok, AfterSpawn(o))
    /\ idx' = idx + 1
    /\ UNCHANGED <<cfgFile, notifierUp, config, run, prev>>
    /\ UNCHANGED <<exit, regVars>>

(* run(), lines 167-168 *)

Finish ==
    /\ pc = "loop"
    /\ idx > Len(Val(config))
    /\ \E ok \in ToastResults :
         Notify(trace, Toast("Startup Configurator", "Program launch finished", "", 0),
                ok, "returned")
    /\ UNCHANGED <<cfgFile, notifierUp, config, idx, run, prev>>
    /\ UNCHANGED <<exit, regVars>>

(* The launcher is started again (main(), lines 173-174), on the same *)
(* file, with a notifier that works                                   *)

Over == pc \in {"returned", "raised"}

\* main(), lines 175-177: the handler prints "Fatal error" and calls input();
\* when input() returns main() returns and the process ends with code 0,
\* when input() raises (no console: EOFError) the exception leaves main()
\* and the interpreter ends with code 1
ExitAfterFatal(inputReturns) == IF inputReturns THEN 0 ELSE 1

(* main(), lines 172-177: the process ends *)

MainExit ==
    /\ Over
    /\ ~exit.done
    /\ IF pc = "returned"
       THEN exit' = [done |-> TRUE, code |-> 0, diag |-> FALSE]
       ELSE \E inputReturns \in BOOLEAN :
               exit' = [done |-> TRUE, code |-> ExitAfterFatal(inputReturns), diag |-> TRUE]
    /\ UNCHANGED <<cfgFile, notifierUp, pc, config, idx, trace, notifyFailed, exc, run, prev>>
    /\ UNCHANGED regVars

Relaunch ==
    /\ Over
    /\ exit.done
    /\ run = 1
    /\ prev' = [over |-> TRUE, result |-> pc, exc |-> exc, effects |-> Effects(trace),
                failed |-> notifyFailed]
    /\ run' = 2
    /\ notifierUp' = TRUE
    /\ pc' = "start"
    /\ config' = None
    /\ idx' = 0
    /\ trace' = <<>>
    /\ notifyFailed' = FALSE
    /\ exc' = "none"
    /\ exit' = NoExit
    /\ UNCHANGED <<cfgFile, regVars>>

Next ==
    \/ Start
    \/ ReadConfig
    \/ AbortNoConfig
    \/ NoPrograms
    \/ EnterLoop
    \/ SkipDisabled
    \/ LaunchNoPath
    \/ Wait
    \/ Spawn
    \/ Finish
    \/ MainExit
    \/ Relaunch

Spec == Init /\ [][Next]_vars

----------------------------------------------------------------------------
(* Vocabulary of the properties, read off the descriptors' fields *)

\* the descriptors of the configuration file, in configuration order
Progs == ProgramsOf(cfgFile)

NProgs == Len(Progs)

\* Enabled is true or missing
EnabledField(d) == d.Enabled # Some(FALSE)

\* Path is there and is not the empty string
HasPathField(d) == d.Path # None /\ d.Path # Some(<<>>)

\* Path is there and is not empty once its variables are expanded
HasResolvedPath(d) ==
    IF HasPathField(d) THEN expandvars(d.Path[1]) # <<>> ELSE FALSE

\* Delay, 0 when missing
DelayField(d) == IF d.Delay = None THEN 0 ELSE d.Delay[1]

\* Name, with its default
NameField(d) == IF d.Name = None THEN "Unknown Program" ELSE d.Name[1]

\* every Delay is a non-negative number (the data model's descriptors)
WellFormed == \A k \in 1 .. NProgs : DelayField(Progs[k]) >= 0

IsSpawn(e) == e.ev = "spawn"
IsSleep(e) == e.ev = "sleep"
IsToast(e) == e.ev = "notify"

SpawnEvents == SelectSeq(trace, IsSpawn)
Toasts == SelectSeq(trace, IsToast)

\* the calls made for descriptor k, in order
CallsFor(k) == LET Mine(e) == e.idx = k IN SelectSeq(trace, Mine)

\* descriptor k has been passed to the spawner and the spawn failed
SpawnFailed(k) ==
    \E j \in 1 .. Len(trace) :
        trace[j].ev = "spawn" /\ trace[j].idx = k /\ trace[j].outcome # "ok"

\* the loop is past descriptor k
Past(k) == k < idx

\* the calls made for a descriptor the loop is past are the ones its own
\* fields ask for, whatever happened to the descriptors before it
ProcessedAsConfigured(k) ==
    LET d == Progs[k]
        calls == CallsFor(k)
    IN  IF ~EnabledField(d)
        THEN calls = << Toast("Startup Configurator", "is disabled. Skipping", NameField(d), k) >>
        ELSE IF ~HasResolvedPath(d)
        THEN calls = << Toast("Launch Error", "Path not specified", NameField(d), k) >>
        ELSE /\ Len(calls) = 3
             /\ calls[1] = Slept(k, DelayField(d))
             /\ calls[2].ev = "spawn"
             /\ calls[2].path = expandvars(d.Path[1])
             /\ calls[3].ev = "notify"
             /\ calls[3].name = NameField(d)
             /\ (calls[3].msg = "launched successfully") = (calls[2].outcome = "ok")

RECURSIVE SumSecs(_)
SumSecs(tr) ==
    IF tr = <<>> THEN 0
    ELSE (IF Head(tr).ev = "sleep" THEN Head(tr).secs ELSE 0) + SumSecs(Tail(tr))

RECURSIVE SumDelays(_)
SumDelays(n) ==
    IF n = 0 THEN 0
    ELSE (IF EnabledField(Progs[n]) /\ HasResolvedPath(Progs[n])
          THEN DelayField(Progs[n]) ELSE 0) + SumDelays(n - 1)

----------------------------------------------------------------------------
\* C1 (as amended): in every state of a run the spawn requests made so far
\* are, in configuration order and once each, exactly the descriptors the
\* loop is past that are enabled and whose Path is non-empty after the
\* expansion of its environment variables; each request passes the expanded
\* path of its descriptor.
C1_SpawnsAreEnabledResolvedInOrder ==
    LET sp == SpawnEvents
    IN  /\ \A j \in 1 .. Len(sp) - 1 : sp[j].idx < sp[j + 1].idx
        /\ { sp[j].idx : j \in 1 .. Len(sp) }
             = { k \in 1 .. NProgs :
                   Past(k) /\ EnabledField(Progs[k]) /\ HasResolvedPath(Progs[k]) }
        /\ \A j \in 1 .. Len(sp) : sp[j].path = expandvars(Progs[sp[j].idx].Path[1])

\* C1 as stated: when run() returns on well-formed descriptors, the spawn
\* requests are exactly the enabled descriptors whose Path field is non-empty,
\* in configuration order.
C1_SpawnsAreEnabledWithPathField ==
    (pc = "returned" /\ WellFormed) =>
        LET sp == SpawnEvents
        IN  /\ \A j \in 1 .. Len(sp) - 1 : sp[j].idx < sp[j + 1].idx
            /\ { sp[j].idx : j \in 1 .. Len(sp) }
                 = { k \in 1 .. NProgs : EnabledField(Progs[k]) /\ HasPathField(Progs[k]) }

\* a run that returned after it spawned one descriptor and left out an
\* enabled one whose Path expands to nothing
C1_Witness ==
    /\ pc = "returned"
    /\ WellFormed
    /\ Len(SpawnEvents) = 1
    /\ \E k \in 1 .. NProgs :
         /\ EnabledField(Progs[k])
         /\ HasPathField(Progs[k])
         /\ ~HasResolvedPath(Progs[k])

----------------------------------------------------------------------------
\* C2: a failed spawn never stops the loop.  A run that returns on a
\* non-empty configuration is past every descriptor; a run only ends early
\* when time.sleep rejects the Delay of the descriptor it is at; and the
\* descriptor after a failed spawn gets exactly the calls its fields ask for.
C2_FailedSpawnDoesNotStopLoop ==
    /\ (pc = "returned" /\ ~IsNone(config) /\ NProgs > 0) => idx = NProgs + 1
    /\ pc = "raised" =>
         /\ exc = "ValueError"
         /\ idx \in 1 .. NProgs
         /\ DelayField(Progs[idx]) < 0
    /\ \A k \in 1 .. NProgs - 1 :
         (SpawnFailed(k) /\ Past(k + 1)) => ProcessedAsConfigured(k + 1)

\* the spawn of descriptor 1 failed and descriptor 2 was then spawned
C2_Witness ==
    /\ pc = "returned"
    /\ NProgs >= 2
    /\ SpawnFailed(1)
    /\ \E j \in 1 .. Len(trace) : trace[j].ev = "spawn" /\ trace[j].idx = 2

----------------------------------------------------------------------------
\* C3: every spawn request comes right after one wait of its own
\* descriptor's Delay (0 when missing); every wait is followed at once by
\* the spawn request of the same descriptor; and when the run returns the
\* waits add up to the sum of Delay over the enabled descriptors that
\* resolve to a path.
C3_DelayRightBeforeOwnSpawn ==
    /\ \A j \in 1 .. Len(trace) :
         trace[j].ev = "spawn" =>
            /\ j > 1
            /\ trace[j - 1] = Slept(trace[j].idx, DelayField(Progs[trace[j].idx]))
    /\ \A j \in 1 .. Len(trace) :
         trace[j].ev = "sleep" =>
            IF j = Len(trace)
            THEN pc = "spawn" /\ idx = trace[j].idx
            ELSE trace[j + 1].ev = "spawn" /\ trace[j + 1].idx = trace[j].idx
    /\ pc = "returned" => SumSecs(trace) = SumDelays(NProgs)

\* a run that returned after two spawns with different waits
C3_Witness ==
    /\ pc = "returned"
    /\ Len(SpawnEvents) = 2
    /\ \E i, j \in 1 .. Len(trace) :
         /\ trace[i].ev = "sleep"
         /\ trace[j].ev = "sleep"
         /\ trace[i].secs # trace[j].secs

----------------------------------------------------------------------------
\* no wait and no spawn request was made for descriptor k
NeverWaitedNorSpawned(k) ==
    \A j \in 1 .. Len(trace) :
        trace[j].idx = k => trace[j].ev \notin {"sleep", "spawn"}

\* C4: a descriptor whose Enabled is false is never waited for and never
\* passed to the spawner, whatever its Path and Delay; once the loop is past
\* it, the one call made for it is the 'disabled, skipping' notification;
\* the run is never at the wait or the spawn of it and never ends at it.
C4_DisabledNeverSpawnedNorDelayed ==
    \A k \in 1 .. NProgs :
        ~EnabledField(Progs[k]) =>
            /\ NeverWaitedNorSpawned(k)
            /\ CallsFor(k) =
                 IF Past(k)
                 THEN << Toast("Startup Configurator", "is disabled. Skipping",
                               NameField(Progs[k]), k) >>
                 ELSE <<>>
            /\ pc \in {"spawn", "raised"} => idx # k
            /\ pc = "returned" => (IsNone(config) \/ Past(k))

\* descriptor 1 is disabled with a Path and a positive Delay, and the run
\* went on to spawn descriptor 2
C4_Witness ==
    /\ pc = "returned"
    /\ NProgs = 2
    /\ ~EnabledField(Progs[1])
    /\ HasPathField(Progs[1])
    /\ DelayField(Progs[1]) > 0
    /\ \E j \in 1 .. Len(trace) : trace[j].ev = "spawn" /\ trace[j].idx = 2

----------------------------------------------------------------------------
\* C5: an enabled descriptor whose Path is missing or empty is never waited
\* for (even with a positive Delay) and never passed to the spawner; once the
\* loop is past it, the one call made for it is the 'path not specified'
\* notification; the run never ends at it, and the descriptor after it gets
\* the calls its own fields ask for.
C5_NoPathNeverSpawnedNorDelayed ==
    \A k \in 1 .. NProgs :
        (EnabledField(Progs[k]) /\ ~HasPathField(Progs[k])) =>
            /\ NeverWaitedNorSpawned(k)
            /\ CallsFor(k) =
                 IF Past(k)
                 THEN << Toast("Launch Error", "Path not specified",
                               NameField(Progs[k]), k) >>
                 ELSE <<>>
            /\ pc \in {"spawn", "raised"} => idx # k
            /\ pc = "returned" => (IsNone(config) \/ Past(k))
            /\ (k < NProgs /\ Past(k + 1)) => ProcessedAsConfigured(k + 1)

\* descriptor 1 is enabled without a usable Path and with a positive Delay,
\* and the run went on to spawn descriptor 2
C5_Witness ==
    /\ pc = "returned"
    /\ NProgs = 2
    /\ EnabledField(Progs[1])
    /\ ~HasPathField(Progs[1])
    /\ DelayField(Progs[1]) > 0
    /\ \E j \in 1 .. Len(trace) : trace[j].ev = "spawn" /\ trace[j].idx = 2

----------------------------------------------------------------------------
\* a step of the run itself
RunStep ==
    \/ Start
    \/ ReadConfig
    \/ AbortNoConfig
    \/ NoPrograms
    \/ EnterLoop
    \/ SkipDisabled
    \/ LaunchNoPath
    \/ Wait
    \/ Spawn
    \/ Finish

HasToast(m) == \E j \in 1 .. Len(trace) : trace[j].ev = "notify" /\ trace[j].msg = m

ReadFailed == cfgFile.kind \in ReadFailures

----------------------------------------------------------------------------
\* the notifications that tell of the configuration failure
AboutConfigFailure(e) ==
    /\ e.ev = "notify"
    /\ (e.title = "Configuration Error" \/ e.msg = "Failed to read configuration")

CauseMsg ==
    CASE cfgFile.kind = "not found"   -> "Configuration file not found"
      [] cfgFile.kind = "bad json"    -> "Could not decode JSON"
      [] cfgFile.kind = "other error" -> "An unexpected error occurred"
      [] OTHER                        -> ""

----------------------------------------------------------------------------
----------------------------------------------------------------------------
StartingToast == Toast("Startup Configurator", "Starting program launch", "", 0)

FinishedToast == Toast("Startup Configurator", "Program launch finished", "", 0)

\* 'starting' is the first call of the run and comes before the read
StartsWithStarting ==
    trace # <<>> => (trace[1] = StartingToast /\ \A j \in 1 .. Len(trace) : trace[j].ev = "read" => j > 1)

\* C9 as stated: a run on a non-empty configuration ends by returning, past
\* every descriptor, with 'Program launch finished' as its last call, and
\* 'starting' is the first call of every run, before the configuration read.
C9_NonEmptyRunEndsWithFinished ==
    /\ StartsWithStarting
    /\ (Over /\ ~ReadFailed /\ NProgs > 0) =>
          /\ pc = "returned"
          /\ idx = NProgs + 1
          /\ trace[Len(trace)] = FinishedToast
          /\ \A j \in 1 .. Len(trace) - 1 : trace[j] # FinishedToast

\* What does hold: the same, for the configurations in which no enabled
\* descriptor with a path has a Delay that time.sleep rejects.
C9_AcceptedDelaysRunEndsWithFinished ==
    /\ StartsWithStarting
    /\ (Over /\ ~ReadFailed /\ NProgs > 0 /\ WellFormed) =>
          /\ pc = "returned"
          /\ idx = NProgs + 1
          /\ trace[Len(trace)] = FinishedToast
          /\ \A j \in 1 .. Len(trace) - 1 : trace[j] # FinishedToast

----------------------------------------------------------------------------
\* C10: no failure of the notifier leaves notify() as an exception, and a run
\* in which show_toast failed made the same configuration read, the same
\* waits and the same spawn requests, and ended the same way, as the run on
\* the same file and executables with a notifier that works.
C10_NotifierFailuresChangeNothing ==
    /\ exc # "NotifierError"
    /\ (run = 2 /\ Over) =>
          /\ Effects(trace) = prev.effects
          /\ pc = prev.result
          /\ exc = prev.exc

\* both runs are over, show_toast failed in the first, and a descriptor was
\* spawned
C10_Witness ==
    /\ run = 2
    /\ pc = "returned"
    /\ prev.failed
    /\ Len(SpawnEvents) >= 1
    /\ ~notifyFailed

----------------------------------------------------------------------------
\* C11 as stated: the launcher's process ends with code 0 when run() returned
\* (finished, no programs, configuration failure, descriptor failures), and
\* with a code that is not 0, after a diagnostic, when an exception left run().
C11_ExitCodeTellsOutcome ==
    exit.done =>
        IF pc = "returned"
        THEN exit.code = 0
        ELSE exit.code # 0 /\ exit.diag

\* What does hold: code 0 after every run that returned, and a diagnostic
\* after every exception that left run().
C11_HandledRunExitsZero ==
    exit.done =>
        IF pc = "returned"
        THEN exit.code = 0 /\ ~exit.diag
        ELSE exit.diag

----------------------------------------------------------------------------
\* C15 as stated: no failure in the processing of one descriptor, the
\* rejection of its Delay by time.sleep included, leaves run(): the run on a
\* configuration that was read returns, past every descriptor, after the
\* 'finished' notification.
C15_EveryDescriptorFailureIsolated ==
    /\ exc = "none"
    /\ pc # "raised"
    /\ (Over /\ ~ReadFailed) =>
          /\ \A k \in 1 .. NProgs : Past(k)
          /\ NProgs > 0 => HasToast("Program launch finished")

----------------------------------------------------------------------------
\* the five outcome notifications of a descriptor
OutcomeMsgs ==
    { "is disabled. Skipping", "Path not specified", "launched successfully",
      "Program file not found", "An unexpected error occurred while launching" }

\* the notifications sent for the descriptors
DescriptorToasts == LET ForOne(e) == e.ev = "notify" /\ e.idx > 0 IN SelectSeq(trace, ForOne)

\* C16: the notifications of a run are 'starting', then one outcome
\* notification for each descriptor the loop is past, in descriptor order and
\* under its name, each one of the five outcomes, then 'finished' when the run
\* has returned; 'launched successfully' is sent for a descriptor exactly
\* when its Popen succeeded; the call after a spawn request is that
\* notification, and the run makes no call on the spawned process.
C16_OneOutcomeNotePerDescriptor ==
    LET dt == DescriptorToasts
    IN  /\ Len(dt) = (IF idx = 0 THEN 0 ELSE idx - 1)
        /\ \A k \in 1 .. Len(dt) :
             /\ dt[k].idx = k
             /\ dt[k].msg \in OutcomeMsgs
             /\ dt[k].name = NameField(Progs[k])
             /\ (dt[k].msg = "launched successfully")
                  = (\E j \in 1 .. Len(trace) :
                       trace[j].ev = "spawn" /\ trace[j].idx = k /\ trace[j].outcome = "ok")
        /\ \A j \in 1 .. Len(trace) :
             trace[j].ev = "spawn" =>
                /\ j < Len(trace)
                /\ trace[j + 1].ev = "notify"
                /\ trace[j + 1].idx = trace[j].idx
        /\ \A j \in 1 .. Len(trace) : trace[j].ev \in {"notify", "read", "sleep", "spawn"}
        /\ (pc = "returned" /\ ~ReadFailed /\ NProgs > 0) =>
             Toasts = <<StartingToast>> \o dt \o <<FinishedToast>>

\* a run that returned after one spawn that succeeded and one that failed
C16_Witness ==
    /\ pc = "returned"
    /\ NProgs = 2
    /\ \E i, j \in 1 .. Len(trace) :
         /\ trace[i].ev = "spawn" /\ trace[i].outcome = "ok"
         /\ trace[j].ev = "spawn" /\ trace[j].outcome # "ok"

----------------------------------------------------------------------------
(* The autostart entry: register_task.py and uninstall.py *)

\* largest number of calls of register and unregister_autostart
MaxCalls == 3

\* self.app_name, the name of the value under the Run key
AppName == "WindowsStartupConfigurator"

\* the executable paths register is called with
ExePaths == { <<"x">>, <<"y">> }

\* mutant: the path is written as it is
command_unquoted(executable_path) == executable_path

\* command = f'"{executable_path}"'
command(executable_path) == <<"\"">> \o executable_path \o <<"\"">>

\* winreg.SetValueEx(key, name, 0, REG_SZ, data): the value is created or
\* replaced
SetValueEx(store, name, data) ==
    { e \in store : e.name # name } \cup { [name |-> name, data |-> data] }

\* winreg.DeleteValue(key, name), when the value is there
DeleteValue(store, name) == { e \in store : e.name # name }

HasValue(store, name) == \E e \in store : e.name = name

\* the Run key before the first call: with or without another program's
\* value, with or without a value left by an earlier registration
RegStores ==
    { other \cup mine :
        other \in { {}, { [name |-> "OtherApp", data |-> <<"o">>] } },
        mine \in { {} } \cup { { [name |-> AppName, data |-> command(p)] } : p \in ExePaths } }

\* how a call of winreg can end
WinregResults == {"ok", "FileNotFoundError", "OtherError"}

launcherVars ==
    <<cfgFile, notifierUp, pc, config, idx, trace, notifyFailed, exc, run, prev, exit>>

\* the launcher is not running while the registry scripts are used
LauncherIdle ==
    /\ cfgFile = [kind |-> "no key", programs |-> <<>>]
    /\ notifierUp = FALSE
    /\ pc = "start"
    /\ config = None
    /\ idx = 0
    /\ trace = <<>>
    /\ notifyFailed = FALSE
    /\ exc = "none"
    /\ run = 1
    /\ prev = NoPrev
    /\ exit = NoExit

InitReg ==
    /\ LauncherIdle
    /\ regStore \in RegStores
    /\ regHandles = 0
    /\ regLast = NoCall
    /\ regCalls = 0

\* A handle that the call has not closed with CloseKey is closed by the
\* runtime when the handle object is destroyed, which may be at the return of
\* the call or later: it counts as open at the return unless the runtime
\* has destroyed it by then.
OpenAtReturn(opened, closed, destroyed) ==
    IF opened /\ ~closed /\ ~destroyed THEN 1 ELSE 0

(* AutostartManager.register, lines 96-131.  _show_notification and     *)
(* _show_error call show_toast without a try: a failure of the success  *)
(* notification is caught by `except Exception` of register, a failure  *)
(* of the error notification leaves register.                           *)

\* what register returns: True at line 124, False at line 131, or the
\* exception of _show_error
register_result(wrote, toastOk, errToastOk) ==
    IF wrote /\ toastOk THEN "True"
    ELSE IF errToastOk THEN "False"
    ELSE "raised"

Register ==
    /\ regCalls < MaxCalls
    /\ \E path \in ExePaths, open \in {"ok", "OtherError"}, set \in {"ok", "OtherError"},
          toastOk \in BOOLEAN, errToastOk \in BOOLEAN, destroyed \in BOOLEAN :
         LET opened == open = "ok"
             wrote == opened /\ set = "ok"
             notes == IF ~wrote THEN << "Registration Error" >>
                      ELSE IF toastOk THEN << "Registration Successful" >>
                      ELSE << "Registration Successful", "Registration Error" >>
         IN  /\ regStore' = IF wrote THEN SetValueEx(regStore, AppName, command(path))
                                      ELSE regStore
             /\ regHandles' = regHandles + OpenAtReturn(opened, wrote, destroyed)
             /\ regLast' = [op |-> "register", path |-> path, before |-> regStore,
                            opened |-> opened, changed |-> wrote, closed |-> wrote,
                            result |-> register_result(wrote, toastOk, errToastOk),
                            notes |-> notes]
    /\ regCalls' = regCalls + 1
    /\ UNCHANGED launcherVars

(* Uninstaller.unregister_autostart, lines 51-69.  notify() catches the *)
(* failures of show_toast.                                              *)

\* what unregister_autostart returns: it has no return statement
unregister_result(deleted) == "None"

UnregisterNote(open, del) ==
    IF open = "ok" /\ del = "ok" THEN "unregistered successfully"
    ELSE IF open = "FileNotFoundError" \/ (open = "ok" /\ del = "FileNotFoundError")
    THEN "not found. Nothing to uninstall"
    ELSE "Failed to unregister"

\* DeleteValue raises FileNotFoundError exactly when the value is not there
DeleteResults(store) ==
    IF HasValue(store, AppName) THEN {"ok", "OtherError"} ELSE {"FileNotFoundError"}

Unregister ==
    /\ regCalls < MaxCalls
    /\ \E open \in WinregResults, del \in DeleteResults(regStore),
          toastOk \in BOOLEAN, destroyed \in BOOLEAN :
         LET opened == open = "ok"
             deleted == opened /\ del = "ok"
         IN  /\ regStore' = IF deleted THEN DeleteValue(regStore, AppName) ELSE regStore
             /\ regHandles' = regHandles + OpenAtReturn(opened, deleted, destroyed)
             /\ regLast' = [op |-> "unregister", path |-> <<>>, before |-> regStore,
                            opened |-> opened, changed |-> deleted, closed |-> deleted,
                            result |-> unregister_result(deleted),
                            notes |-> << UnregisterNote(open, del) >>]
    /\ regCalls' = regCalls + 1
    /\ UNCHANGED launcherVars

NextReg ==
    \/ Register
    \/ Unregister

SpecReg == InitReg /\ [][NextReg]_vars

----------------------------------------------------------------------------
\* the values under the application's name
MyEntries(store) == { e \in store : e.name = AppName }

\* the values of the other programs
OtherEntries(store) == { e \in store : e.name # AppName }

\* C12: after any sequence of register and unregister_autostart calls the
\* Run key holds at most one value under 'WindowsStartupConfigurator' and
\* the other programs' values are as they were.  A register that wrote (and
\* every register that returned True did) leaves exactly the executable
\* path of that call between double quotes, whatever was there; an
\* unregister that deleted leaves no value; a call that did not write or
\* delete leaves the key as it was; an unregister that finds no value leaves
\* the key unchanged, notifies once and raises nothing.
C12_StoreFollowsLastCall ==
    /\ Cardinality(MyEntries(regStore)) <= 1
    /\ regLast.op # "none" =>
          /\ OtherEntries(regStore) = OtherEntries(regLast.before)
          /\ ~regLast.changed => regStore = regLast.before
    /\ regLast.op = "register" =>
          /\ regLast.result = "True" => regLast.changed
          /\ regLast.changed =>
               MyEntries(regStore)
                 = { [name |-> AppName, data |-> <<"\"">> \o regLast.path \o <<"\"">>] }
    /\ regLast.op = "unregister" =>
          /\ regLast.changed => MyEntries(regStore) = {}
          /\ MyEntries(regLast.before) = {} =>
               /\ regStore = regLast.before
               /\ regLast.result # "raised"
               /\ Len(regLast.notes) = 1
               /\ regLast.notes[1] # "unregistered successfully"

\* a register overwrote the value of an earlier register with another path,
\* and an unregister after it found the value and deleted it
C12_Witness ==
    /\ regCalls = 3
    /\ regLast.op = "unregister"
    /\ regLast.changed
    /\ \E p \in ExePaths :
         MyEntries(regLast.before) = { [name |-> AppName, data |-> <<"\"">> \o p \o <<"\"">>] }
    /\ regStore = {}

----------------------------------------------------------------------------
\* C13 as stated: register returns True or False and never raises, True
\* exactly when the value was written, also when the notifier fails.
C13_RegisterReturnsWhetherWritten ==
    regLast.op = "register" =>
        /\ regLast.result \in {"True", "False"}
        /\ (regLast.result = "True") = regLast.changed

----------------------------------------------------------------------------
\* C14 as stated: unregister_autostart returns True when the value was
\* removed and False otherwise.
C14_UnregisterReturnsWhetherRemoved ==
    regLast.op = "unregister" =>
        regLast.result = (IF regLast.changed THEN "True" ELSE "False")

----------------------------------------------------------------------------
\* C17 as stated: when register or unregister_autostart returns, every key
\* handle it opened has been closed, also when the write or the delete
\* failed.
C17_EveryHandleClosedAtReturn ==
    regHandles = 0

====
